---- MODULE Spec2Model ----
(***************************************************************************)
(* Vigil: a liveness watchdog (src/src/lib.rs).                            *)
(*                                                                         *)
(* One handle (Vigil) shares three atomics with one watcher thread         *)
(* (VigilShared::watch).  Every atomic load, store and compare-and-swap of *)
(* the source is one step of the model and the steps of the caller and of  *)
(* the watcher interleave freely (sequentially consistent atomics).        *)
(*                                                                         *)
(* Time is discrete.  The watcher's computation takes no time; time passes *)
(* only while the watcher is inside thread::sleep, which lasts exactly the *)
(* interval the watcher read before it.                                    *)
(***************************************************************************)
EXTENDS Naturals, FiniteSets

\* ---------------------------------------------------------------- bounds
\* The largest interval_ms handed to create / set_interval.
MaxInterval == 3
\* The cap of the counter of heartbeat-free ticks.
MaxQuiet == 5
\* The cap of the counter of ticks that read LIVE.
MaxLiveTicks == 2
\* The cap of the counter of callback invocations after disposal.
MaxAfterDrop == 2

\* ------------------------------------------------------- program constants
INIT == 0
LIVE == 1
TEST == 2
RISK == 3
DEAD == 4

\* The interval_ms arguments (usize) tried: zero (nothing in the source
\* rejects it), the shortest positive interval and a long one.
Intervals == {0, 1, MaxInterval}

Min(a, b) == IF a < b THEN a ELSE b

VARIABLES
    \* VigilShared
    tick_interval,      \* AtomicUsize
    state,              \* AtomicUsize: the alarm level
    terminated,         \* AtomicBool
    \* VigilCallbacks: TRUE for Some(cb), FALSE for None
    missed_test_cb,
    at_risk_cb,
    stall_detected_cb,
    \* the watcher thread
    pc,                 \* its position in VigilShared::watch
    interval_ms,        \* the local interval_ms of watch (last value read)
    remaining,          \* time left of the thread::sleep in progress
    active,             \* callback invocations begun and not yet returned
    \* the thread that owns the Vigil handle
    hpc,                \* "idle", "set_interval" (between its two stores), "dropped"
    ms,                 \* the interval_ms argument of the latest set_interval
    \* history (written, never read, by the program's steps)
    cbTick,             \* the callback invoked in the latest tick, or "none"
    quiet,              \* ticks since the tick that read LIVE, with no heartbeat since (0: none)
    firedQuiet,         \* the callbacks invoked in the ticks that quiet counts
    beatSinceAccess,    \* a heartbeat took effect after the watcher's last access to state
    liveTicks,          \* the ticks that read LIVE while kept holds (0 after), capped
    kept,               \* every tick so far read state after such a heartbeat, or read INIT
    sinceStore,         \* ticks counted from the one that stored TEST, with no heartbeat
                        \* since that store (0: none), capped
    read,               \* the level the latest tick read (INIT before the first tick)
    \* the tick before the latest, recorded when the latest read TEST, RISK or DEAD
    prevRead,           \* the level it read (else INIT)
    prevCb,             \* the callback it invoked (else "none")
    lastOp,             \* the latest heartbeat: "none", "notify" or "set_interval"
    prevInterval,       \* tick_interval before the set_interval that was the latest heartbeat
    repeated,           \* the latest heartbeat was a notify() that followed another
                        \* heartbeat, with no access of the watcher to state in
                        \* between or since
    gapTime,            \* time since the set_interval that was the latest heartbeat, capped
    sinceDrop,          \* time since disposal while the watcher has not exited, capped
    cbAfterDrop,        \* callback invocations begun after disposal, capped
    passedAtDrop        \* at disposal the watcher was in a tick, past its check of
                        \* terminated and before the call of the tick's callback

shared == <<tick_interval, state, terminated>>
callbacks == <<missed_test_cb, at_risk_cb, stall_detected_cb>>
watcher == <<pc, interval_ms, remaining, active>>
handle == <<hpc, ms>>
tickHist == <<cbTick, quiet, firedQuiet, liveTicks, kept, sinceStore>>
readHist == <<read, prevRead, prevCb>>
beatHist == <<lastOp, prevInterval, repeated>>
timeHist == <<gapTime, sinceDrop>>
dropHist == <<cbAfterDrop, passedAtDrop>>
vars ==
    <<shared, callbacks, watcher, handle, tickHist, readHist, beatSinceAccess, beatHist,
      timeHist, dropHist>>

\* ------------------------------------------------------------ Vigil::create
Init ==
    /\ tick_interval \in Intervals
    /\ state = INIT
    /\ terminated = FALSE
    /\ missed_test_cb \in BOOLEAN
    /\ at_risk_cb \in BOOLEAN
    /\ stall_detected_cb \in BOOLEAN
    /\ pc = "check"
    /\ interval_ms = 0
    /\ remaining = 0
    /\ active = 0
    /\ hpc = "idle"
    /\ ms = 0
    /\ cbTick = "none"
    /\ quiet = 0
    /\ firedQuiet = {}
    /\ beatSinceAccess = FALSE
    /\ liveTicks = 0
    /\ kept = TRUE
    /\ sinceStore = 0
    /\ read = INIT
    /\ prevRead = INIT
    /\ prevCb = "none"
    /\ lastOp = "none"
    /\ prevInterval = 0
    /\ repeated = FALSE
    /\ gapTime = 0
    /\ sinceDrop = 0
    /\ cbAfterDrop = 0
    /\ passedAtDrop = FALSE

\* ------------------------------------------------------------ Vigil::notify
\* A notify that only starts the vigil: compare_and_swap(INIT, LIVE).
notify_if_init == state' = IF state = INIT THEN LIVE ELSE state

\* A notify that flips the level: fetch_xor(LIVE).
notify_toggle == state' = IF state = LIVE THEN INIT ELSE LIVE

\* self.shared.state.store(LIVE)
notify == state' = LIVE

\* The history of a heartbeat taking effect.
Heartbeat(op) ==
    /\ beatSinceAccess' = TRUE
    /\ quiet' = 0
    /\ firedQuiet' = {}
    /\ sinceStore' = 0
    /\ lastOp' = op
    /\ repeated' = (op = "notify" /\ beatSinceAccess)
    /\ gapTime' = 0

Notify ==
    /\ hpc = "idle"
    /\ notify
    /\ Heartbeat("notify")
    /\ prevInterval' = 0
    /\ UNCHANGED <<tick_interval, terminated, callbacks, watcher, handle>>
    /\ UNCHANGED <<cbTick, liveTicks, kept, sinceDrop>>
    /\ UNCHANGED <<readHist, dropHist>>

\* ------------------------------------------------------ Vigil::set_interval
\* self.shared.tick_interval.store(interval_ms)
SetIntervalStore(arg) ==
    /\ hpc = "idle"
    /\ tick_interval' = arg
    /\ ms' = arg
    /\ hpc' = "set_interval"
    /\ prevInterval' = tick_interval
    /\ UNCHANGED <<state, terminated, callbacks, watcher, tickHist, beatSinceAccess>>
    /\ UNCHANGED <<lastOp, repeated, timeHist>>
    /\ UNCHANGED <<readHist, dropHist>>

\* A set_interval that stores the interval and forgets the heartbeat.
SetIntervalNoNotify ==
    /\ hpc = "set_interval"
    /\ hpc' = "idle"
    /\ Heartbeat("set_interval")
    /\ UNCHANGED <<shared, callbacks, watcher, ms>>
    /\ UNCHANGED <<cbTick, liveTicks, kept, prevInterval, sinceDrop>>
    /\ UNCHANGED <<readHist, dropHist>>

\* self.notify()
SetIntervalNotify ==
    /\ hpc = "set_interval"
    /\ notify
    /\ hpc' = "idle"
    /\ Heartbeat("set_interval")
    /\ UNCHANGED <<tick_interval, terminated, callbacks, watcher, ms>>
    /\ UNCHANGED <<cbTick, liveTicks, kept, prevInterval, sinceDrop>>
    /\ UNCHANGED <<readHist, dropHist>>

\* ------------------------------------------------------------ Drop for Vigil
\* drop takes the handle by &mut: no notify or set_interval is in progress.
Drop ==
    /\ hpc = "idle"
    /\ terminated' = TRUE
    /\ hpc' = "dropped"
    /\ UNCHANGED <<tick_interval, state, callbacks, watcher, ms, tickHist>>
    /\ UNCHANGED <<beatSinceAccess, beatHist, timeHist>>
    /\ passedAtDrop' = (pc \in {"match", "live", "test_cas", "test_cb", "risk_cas",
                                 "risk_cb", "dead_cb"})
    /\ UNCHANGED <<cbAfterDrop, readHist>>

\* ------------------------------------------------------- VigilShared::watch
\* A loop that never looks at terminated.
CheckTerminatedNever ==
    /\ pc = "check"
    /\ pc' = "match"
    /\ UNCHANGED <<shared, callbacks, interval_ms, remaining, active, handle, tickHist>>
    /\ UNCHANGED <<beatSinceAccess, beatHist, timeHist>>
    /\ UNCHANGED <<readHist, dropHist>>

\* A check that consumes the flag: if self.terminated.swap(false) { break; }
CheckTerminatedSwap ==
    /\ pc = "check"
    /\ pc' = IF terminated THEN "done" ELSE "match"
    /\ terminated' = FALSE
    /\ UNCHANGED <<tick_interval, state, callbacks, interval_ms, remaining, active>>
    /\ UNCHANGED <<handle, tickHist, beatSinceAccess, beatHist, timeHist>>
    /\ UNCHANGED <<readHist, dropHist>>

\* if self.terminated.load() { break; }
CheckTerminated ==
    /\ pc = "check"
    /\ pc' = IF terminated THEN "done" ELSE "match"
    /\ UNCHANGED <<shared, callbacks, interval_ms, remaining, active, handle, tickHist>>
    /\ UNCHANGED <<beatSinceAccess, beatHist, timeHist>>
    /\ UNCHANGED <<readHist, dropHist>>

\* A match without the INIT arm: Uninitialized is treated as Live.
ArmInitAsLive(v) ==
    CASE v = INIT -> "live"
      [] v = LIVE -> "live"
      [] v = TEST -> "test_cas"
      [] v = RISK -> "risk_cas"
      [] v = DEAD -> "dead_cb"
      [] OTHER -> "interval"

\* A match whose LIVE arm is the TEST arm: no tick of grace.
ArmLiveAsTest(v) ==
    CASE v = INIT -> "interval"
      [] v = LIVE -> "test_cas"
      [] v = TEST -> "test_cas"
      [] v = RISK -> "risk_cas"
      [] v = DEAD -> "dead_cb"
      [] OTHER -> "interval"

\* The arm of the match that a loaded value selects.
Arm(v) ==
    CASE v = INIT -> "interval"
      [] v = LIVE -> "live"
      [] v = TEST -> "test_cas"
      [] v = RISK -> "risk_cas"
      [] v = DEAD -> "dead_cb"
      [] OTHER -> "interval"

\* A match without the DEAD arm: DEAD falls to the arm of an unexpected
\* value, which stores INIT.
MatchNoDeadArm ==
    /\ pc = "match"
    /\ pc' = IF state = DEAD THEN "interval" ELSE Arm(state)
    /\ state' = IF state \in {INIT, LIVE, TEST, RISK} THEN state ELSE INIT
    /\ cbTick' = "none"
    /\ quiet' = IF state = LIVE THEN 1
                ELSE IF quiet >= 1 THEN Min(quiet + 1, MaxQuiet) ELSE 0
    /\ firedQuiet' = IF state = LIVE THEN {} ELSE firedQuiet
    /\ liveTicks' = IF ~(kept /\ (beatSinceAccess \/ state = INIT)) THEN 0
                    ELSE IF state = LIVE THEN Min(liveTicks + 1, MaxLiveTicks)
                    ELSE liveTicks
    /\ kept' = (kept /\ (beatSinceAccess \/ state = INIT))
    /\ sinceStore' = IF sinceStore >= 1 THEN Min(sinceStore + 1, MaxQuiet) ELSE 0
    /\ read' = state
    /\ prevRead' = IF state \in {TEST, RISK, DEAD} THEN read ELSE INIT
    /\ prevCb' = IF state \in {TEST, RISK, DEAD} THEN cbTick ELSE "none"
    /\ beatSinceAccess' = FALSE
    /\ repeated' = FALSE
    /\ UNCHANGED <<tick_interval, terminated, callbacks, interval_ms, remaining, active>>
    /\ UNCHANGED <<handle, lastOp, prevInterval, timeHist, dropHist>>

\* match self.state.load() { ... }: the INIT arm only logs; the arm of an
\* unexpected value stores INIT.
Match ==
    /\ pc = "match"
    /\ pc' = Arm(state)
    /\ state' = IF state \in {INIT, LIVE, TEST, RISK, DEAD} THEN state ELSE INIT
    /\ cbTick' = "none"
    /\ quiet' = IF state = LIVE THEN 1
                ELSE IF quiet >= 1 THEN Min(quiet + 1, MaxQuiet) ELSE 0
    /\ firedQuiet' = IF state = LIVE THEN {} ELSE firedQuiet
    /\ liveTicks' = IF ~(kept /\ (beatSinceAccess \/ state = INIT)) THEN 0
                    ELSE IF state = LIVE THEN Min(liveTicks + 1, MaxLiveTicks)
                    ELSE liveTicks
    /\ kept' = (kept /\ (beatSinceAccess \/ state = INIT))
    /\ sinceStore' = IF sinceStore >= 1 THEN Min(sinceStore + 1, MaxQuiet) ELSE 0
    /\ read' = state
    /\ prevRead' = IF state \in {TEST, RISK, DEAD} THEN read ELSE INIT
    /\ prevCb' = IF state \in {TEST, RISK, DEAD} THEN cbTick ELSE "none"
    /\ beatSinceAccess' = FALSE
    /\ repeated' = FALSE
    /\ UNCHANGED <<tick_interval, terminated, callbacks, interval_ms, remaining, active>>
    /\ UNCHANGED <<handle, lastOp, prevInterval, timeHist, dropHist>>

\* A LIVE arm that skips a rung: store(RISK).
LiveStoreSkipsRung ==
    /\ pc = "live"
    /\ state' = RISK
    /\ pc' = "interval"
    /\ sinceStore' = 1
    /\ beatSinceAccess' = FALSE
    /\ repeated' = FALSE
    /\ UNCHANGED <<tick_interval, terminated, callbacks, interval_ms, remaining, active>>
    /\ UNCHANGED <<handle, cbTick, quiet, firedQuiet, liveTicks, kept, lastOp, prevInterval>>
    /\ UNCHANGED <<timeHist, readHist, dropHist>>

\* LIVE => self.state.store(TEST)
LiveStore ==
    /\ pc = "live"
    /\ state' = TEST
    /\ pc' = "interval"
    /\ sinceStore' = 1
    /\ beatSinceAccess' = FALSE
    /\ repeated' = FALSE
    /\ UNCHANGED <<tick_interval, terminated, callbacks, interval_ms, remaining, active>>
    /\ UNCHANGED <<handle, cbTick, quiet, firedQuiet, liveTicks, kept, lastOp, prevInterval>>
    /\ UNCHANGED <<timeHist, readHist, dropHist>>

\* A compare_and_swap that goes up two rungs at once.
compare_and_swap_two_rungs(current, new) ==
    state' = IF state = current THEN Min(new + 1, DEAD) ELSE state

\* A compare_and_swap with its arguments swapped: it never succeeds.
compare_and_swap_swapped(current, new) ==
    state' = IF state = new THEN current ELSE state

\* A plain store in place of the compare_and_swap: store(new).
compare_and_swap_as_store(current, new) ==
    state' = new

\* self.state.compare_and_swap(current, new)
compare_and_swap(current, new) ==
    state' = IF state = current THEN new ELSE state

CasStep(at, current, new, next) ==
    /\ pc = at
    /\ compare_and_swap(current, new)
    /\ pc' = next
    /\ beatSinceAccess' = FALSE
    /\ repeated' = FALSE
    /\ UNCHANGED <<tick_interval, terminated, callbacks, interval_ms, remaining, active>>
    /\ UNCHANGED <<handle, tickHist, lastOp, prevInterval, timeHist>>
    /\ UNCHANGED <<readHist, dropHist>>

\* The callback a tick invokes from a slot: none when the slot is None.
Invoked(slot, name) == IF slot THEN name ELSE "none"

\* An arm that reports only when the level is still not LIVE.
CbStepUnlessLive(at, slot, name) ==
    /\ pc = at
    /\ pc' = IF slot /\ state # LIVE THEN "in_cb" ELSE "interval"
    /\ active' = IF slot /\ state # LIVE THEN active + 1 ELSE active
    /\ cbTick' = IF state # LIVE THEN Invoked(slot, name) ELSE "none"
    /\ firedQuiet' = IF slot /\ state # LIVE /\ quiet >= 1
                      THEN firedQuiet \cup {name} ELSE firedQuiet
    /\ UNCHANGED <<shared, callbacks, interval_ms, remaining, handle>>
    /\ UNCHANGED <<quiet, liveTicks, kept, sinceStore, beatSinceAccess, beatHist, timeHist>>
    /\ UNCHANGED readHist
    /\ cbAfterDrop' = IF slot /\ state # LIVE /\ terminated
                       THEN Min(cbAfterDrop + 1, MaxAfterDrop) ELSE cbAfterDrop
    /\ UNCHANGED passedAtDrop

\* if let Some(ref cb) = slot { cb(); }: the call of cb, on the watcher's
\* own thread; a slot of None is skipped.
CbStep(at, slot, name) ==
    /\ pc = at
    /\ pc' = IF slot THEN "in_cb" ELSE "interval"
    /\ active' = IF slot THEN active + 1 ELSE active
    /\ cbTick' = Invoked(slot, name)
    /\ firedQuiet' = IF slot /\ quiet >= 1 THEN firedQuiet \cup {name} ELSE firedQuiet
    /\ UNCHANGED <<shared, callbacks, interval_ms, remaining, handle>>
    /\ UNCHANGED <<quiet, liveTicks, kept, sinceStore, beatSinceAccess, beatHist, timeHist>>
    /\ UNCHANGED readHist
    /\ cbAfterDrop' = IF slot /\ terminated
                       THEN Min(cbAfterDrop + 1, MaxAfterDrop) ELSE cbAfterDrop
    /\ UNCHANGED passedAtDrop

\* A callback handed to a thread of its own: the arm goes on without
\* waiting for it.
CbReturnDetached ==
    /\ pc = "in_cb"
    /\ pc' = "interval"
    /\ active' = active
    /\ UNCHANGED <<shared, callbacks, interval_ms, remaining, handle, tickHist>>
    /\ UNCHANGED <<beatSinceAccess, beatHist, timeHist>>
    /\ UNCHANGED <<readHist, dropHist>>

\* cb() returns to the arm that called it.
CbReturn ==
    /\ pc = "in_cb"
    /\ pc' = "interval"
    /\ active' = active - 1
    /\ UNCHANGED <<shared, callbacks, interval_ms, remaining, handle, tickHist>>
    /\ UNCHANGED <<beatSinceAccess, beatHist, timeHist>>
    /\ UNCHANGED <<readHist, dropHist>>

\* TEST => compare_and_swap(TEST, RISK); missed_test_cb
TestCas == CasStep("test_cas", TEST, RISK, "test_cb")
TestCb == CbStep("test_cb", missed_test_cb, "missed")

\* RISK => compare_and_swap(RISK, DEAD); at_risk_cb
RiskCas == CasStep("risk_cas", RISK, DEAD, "risk_cb")
RiskCb == CbStep("risk_cb", at_risk_cb, "at_risk")

\* A DEAD arm that re-arms the vigil after reporting the stall.
DeadCbRearms ==
    /\ pc = "dead_cb"
    /\ pc' = IF stall_detected_cb THEN "in_cb" ELSE "interval"
    /\ active' = IF stall_detected_cb THEN active + 1 ELSE active
    /\ state' = LIVE
    /\ cbTick' = Invoked(stall_detected_cb, "stalled")
    /\ firedQuiet' = IF stall_detected_cb /\ quiet >= 1
                      THEN firedQuiet \cup {"stalled"} ELSE firedQuiet
    /\ UNCHANGED <<tick_interval, terminated, callbacks, interval_ms, remaining, handle>>
    /\ UNCHANGED <<quiet, liveTicks, kept, sinceStore, beatSinceAccess, beatHist, timeHist>>
    /\ UNCHANGED readHist
    /\ cbAfterDrop' = IF stall_detected_cb /\ terminated
                       THEN Min(cbAfterDrop + 1, MaxAfterDrop) ELSE cbAfterDrop
    /\ UNCHANGED passedAtDrop

\* DEAD => stall_detected_cb
DeadCb == CbStep("dead_cb", stall_detected_cb, "stalled")

\* A sleep one unit longer than the interval read.
LoadIntervalSleepsLonger ==
    /\ pc = "interval"
    /\ interval_ms' = tick_interval
    /\ remaining' = tick_interval + 1
    /\ pc' = "sleep"
    /\ UNCHANGED <<shared, callbacks, active, handle, tickHist, beatSinceAccess>>
    /\ UNCHANGED <<beatHist, timeHist>>
    /\ UNCHANGED <<readHist, dropHist>>

\* let interval_ms = self.tick_interval.load(); thread::sleep begins
LoadInterval ==
    /\ pc = "interval"
    /\ interval_ms' = tick_interval
    /\ remaining' = tick_interval
    /\ pc' = "sleep"
    /\ UNCHANGED <<shared, callbacks, active, handle, tickHist, beatSinceAccess>>
    /\ UNCHANGED <<beatHist, timeHist>>
    /\ UNCHANGED <<readHist, dropHist>>

\* One unit of time passes while the watcher sleeps.
TimePass ==
    /\ pc = "sleep"
    /\ remaining > 0
    /\ remaining' = remaining - 1
    /\ gapTime' = IF lastOp = "set_interval" THEN Min(gapTime + 1, MaxInterval) ELSE 0
    /\ sinceDrop' = IF terminated THEN Min(sinceDrop + 1, MaxInterval + 1) ELSE 0
    /\ UNCHANGED <<shared, callbacks, pc, interval_ms, active, handle, tickHist>>
    /\ UNCHANGED <<beatSinceAccess, beatHist>>
    /\ UNCHANGED <<readHist, dropHist>>

\* A loop that checks terminated once, before its first tick only.
WakeSkipsCheck ==
    /\ pc = "sleep"
    /\ remaining = 0
    /\ pc' = "match"
    /\ UNCHANGED <<shared, callbacks, interval_ms, remaining, active, handle, tickHist>>
    /\ UNCHANGED <<beatSinceAccess, beatHist, timeHist>>
    /\ UNCHANGED <<readHist, dropHist>>

\* A sleep that a shorter tick_interval cuts short (a timed wait that
\* set_interval signals).
WakeOnShorter ==
    /\ pc = "sleep"
    /\ remaining = 0 \/ tick_interval < interval_ms
    /\ pc' = "check"
    /\ remaining' = 0
    /\ UNCHANGED <<shared, callbacks, interval_ms, active, handle, tickHist>>
    /\ UNCHANGED <<beatSinceAccess, beatHist, timeHist>>
    /\ UNCHANGED <<readHist, dropHist>>

\* thread::sleep returns; the loop starts over.
Wake ==
    /\ pc = "sleep"
    /\ remaining = 0
    /\ pc' = "check"
    /\ UNCHANGED <<shared, callbacks, interval_ms, remaining, active, handle, tickHist>>
    /\ UNCHANGED <<beatSinceAccess, beatHist, timeHist>>
    /\ UNCHANGED <<readHist, dropHist>>

WatcherStep ==
    \/ CheckTerminated
    \/ Match
    \/ LiveStore
    \/ TestCas
    \/ TestCb
    \/ RiskCas
    \/ RiskCb
    \/ DeadCb
    \/ CbReturn
    \/ LoadInterval
    \/ Wake

HandleStep ==
    \/ Notify
    \/ \E arg \in Intervals : SetIntervalStore(arg)
    \/ SetIntervalNotify
    \/ Drop

Next == WatcherStep \/ HandleStep \/ TimePass

Spec == Init /\ [][Next]_vars

\* The watcher thread is scheduled and its sleeps end.
FairSpec == Spec /\ WF_vars(WatcherStep) /\ WF_vars(TimePass)

TypeOK ==
    /\ tick_interval \in Intervals
    /\ state \in {INIT, LIVE, TEST, RISK, DEAD}
    /\ terminated \in BOOLEAN
    /\ pc \in {"check", "match", "live", "test_cas", "test_cb", "risk_cas",
               "risk_cb", "dead_cb", "in_cb", "interval", "sleep", "done"}
    /\ interval_ms \in Intervals
    /\ remaining \in 0 .. MaxInterval
    /\ active \in {0, 1}
    /\ hpc \in {"idle", "set_interval", "dropped"}
    /\ cbTick \in {"none", "missed", "at_risk", "stalled"}
    /\ quiet \in 0 .. MaxQuiet
    /\ liveTicks \in 0 .. MaxLiveTicks
    /\ sinceStore \in 0 .. MaxQuiet

\* ------------------------------------------------------------------ claims
AllCallbacks == missed_test_cb /\ at_risk_cb /\ stall_detected_cb

\* Those of the named callbacks whose slot is Some.
Present(names) ==
    {n \in names : \/ n = "missed" /\ missed_test_cb
                   \/ n = "at_risk" /\ at_risk_cb
                   \/ n = "stalled" /\ stall_detected_cb}

\* The watcher is in an arm that escalates or invokes a callback.
InAlarmArm ==
    pc \in {"test_cas", "test_cb", "risk_cas", "risk_cb", "dead_cb", "in_cb"}

\* The dispatch of the latest tick is complete.
TickDone == pc \in {"interval", "sleep", "check", "done"}

\* Neither notify nor set_interval has been called yet.
NeverCalled == lastOp = "none" /\ hpc # "set_interval"

\* C1: until the first call of notify() or set_interval(), the level stays
\* Uninitialized on every tick and the watcher neither enters an escalating
\* arm nor invokes a callback.
C1_NoCallbackBeforeFirstHeartbeat ==
    NeverCalled => (state = INIT /\ cbTick = "none" /\ pc # "live" /\ ~InAlarmArm)

\* A second tick has been dispatched, after a sleep of positive length, with
\* no call on the handle so far.
C1_Witness ==
    /\ NeverCalled
    /\ AllCallbacks
    /\ pc = "interval"
    /\ interval_ms > 0
    /\ remaining = 0

\* C2 as stated (for positive intervals): while every tick has had a
\* heartbeat since the watcher's previous access to the level, the level is
\* Live or Uninitialized and no callback is invoked.
C2_LevelStaysLive ==
    (kept /\ tick_interval > 0 /\ interval_ms > 0) =>
        (state \in {INIT, LIVE} /\ cbTick = "none")

\* C2 as amended: while every tick has had a heartbeat since the watcher's
\* previous access to the level, every tick reads Live or Uninitialized, the
\* level is Live, Tested or Uninitialized (never AtRisk or Stalled), and no
\* callback is invoked.
C2_NoEscalationUnderHeartbeats ==
    kept => (state \in {INIT, LIVE, TEST} /\ cbTick = "none" /\ ~InAlarmArm)

\* Two ticks have read Live, each after a fresh heartbeat, and a third
\* heartbeat has arrived.
C2_Witness ==
    /\ kept
    /\ AllCallbacks
    /\ liveTicks >= 2
    /\ TickDone
    /\ state = LIVE

\* C3: counting from the tick that reads Live, with no heartbeat since that
\* read, the 1st tick leaves Tested and invokes nothing, the 2nd leaves
\* AtRisk and invokes only onMissed, the 3rd leaves Stalled and invokes only
\* onAtRisk, the 4th and later invoke only onStalled.
C3_OneRungPerTick ==
    TickDone =>
        /\ quiet = 1 => (state = TEST /\ cbTick = "none" /\ firedQuiet = {})
        /\ quiet = 2 =>
            /\ state = RISK
            /\ cbTick = Invoked(missed_test_cb, "missed")
            /\ firedQuiet = Present({"missed"})
        /\ quiet = 3 =>
            /\ state = DEAD
            /\ cbTick = Invoked(at_risk_cb, "at_risk")
            /\ firedQuiet = Present({"missed", "at_risk"})
        /\ quiet >= 4 =>
            /\ state = DEAD
            /\ cbTick = Invoked(stall_detected_cb, "stalled")

\* The fourth heartbeat-free tick has invoked onStalled, after onMissed and
\* onAtRisk.
C3_Witness ==
    /\ AllCallbacks
    /\ TickDone
    /\ quiet = 4
    /\ cbTick = "stalled"
    /\ firedQuiet = {"missed", "at_risk", "stalled"}

\* A heartbeat takes effect.
HeartbeatStep == Notify \/ SetIntervalNotify

\* C4: if heartbeats stop for good after at least one heartbeat and the
\* handle is never disposed, the level eventually is Stalled for good and
\* onStalled is invoked again and again; a level of Stalled is changed only
\* by a heartbeat, to Live; and every tick that reads Stalled invokes
\* onStalled.
C4_StalledUntilHeartbeat ==
    /\ (<>[][~HeartbeatStep]_vars /\ []~terminated /\ <>(state # INIT)) =>
           /\ <>[](state = DEAD)
           /\ []<>(cbTick = Invoked(stall_detected_cb, "stalled") /\ TickDone)
    /\ [][state = DEAD /\ state' # DEAD => state' = LIVE /\ HeartbeatStep]_vars
    /\ [][pc = "dead_cb" /\ pc' # "dead_cb" =>
              cbTick' = Invoked(stall_detected_cb, "stalled")]_vars

\* A tick has read Stalled, with no heartbeat since, after an earlier tick
\* that invoked onStalled.
C4_Witness ==
    /\ AllCallbacks
    /\ ~terminated
    /\ quiet = MaxQuiet
    /\ state = DEAD
    /\ pc = "dead_cb"

\* C5: a notify() step leaves the level Live, whatever it was, and changes
\* neither tick_interval nor terminated; the level is still Live as long as
\* the watcher has not touched it since.
C5_NotifySetsLive ==
    /\ [][Notify => /\ state' = LIVE
                     /\ tick_interval' = tick_interval
                     /\ terminated' = terminated]_vars
    /\ [](lastOp = "notify" /\ beatSinceAccess => state = LIVE)

\* The watcher has read Stalled and a notify() has since set Live under it.
C5_Witness ==
    /\ lastOp = "notify"
    /\ beatSinceAccess
    /\ pc = "dead_cb"
    /\ state = LIVE

\* C6: inside set_interval(ms), tick_interval = ms is stored before the
\* heartbeat; once set_interval(ms) has completed tick_interval = ms, and the
\* level is Live as long as the watcher has not touched it since.
C6_SetIntervalThenNotify ==
    /\ hpc = "set_interval" => tick_interval = ms
    /\ (lastOp = "set_interval" /\ hpc = "idle") =>
           /\ tick_interval = ms
           /\ beatSinceAccess => state = LIVE

\* The watcher has read Stalled and a set_interval(ms) that changed the
\* interval has since completed.
C6_Witness ==
    /\ lastOp = "set_interval"
    /\ hpc = "idle"
    /\ beatSinceAccess
    /\ pc = "dead_cb"
    /\ state = LIVE
    /\ tick_interval = ms
    /\ tick_interval # prevInterval

\* The interval D of the set_interval(D) that was the latest heartbeat.
GapInterval == IF hpc = "set_interval" THEN prevInterval ELSE tick_interval

\* The latest heartbeat was a set_interval(D) and less than D has passed.
InGap == lastOp = "set_interval" /\ gapTime < GapInterval

C7_GapBeforeRestore ==
    [][(InGap /\ kept /\ hpc = "idle") =>
           (kept' /\ cbTick' = "none" /\ ~InAlarmArm')]_vars

\* C7 up to the call that restores the interval, its case: the gap after
\* set_interval(D) has lasted two of the old intervals, the watcher has
\* ticked in it, and heartbeats were regular before.
C7_GapWitness ==
    /\ InGap
    /\ kept
    /\ AllCallbacks
    /\ hpc = "idle"
    /\ prevInterval >= 1
    /\ gapTime >= 2 * prevInterval
    /\ liveTicks >= 2
    /\ state = TEST
    /\ pc = "sleep"

\* C8: once terminated is set the watcher loop exits.
C8_WatcherExitsAfterDrop == terminated ~> (pc = "done")

\* The watcher has exited without any heartbeat, hence without any callback.
C8_Witness ==
    /\ pc = "done"
    /\ lastOp = "none"
    /\ state = INIT

\* C9 as stated: the time from disposal to the watcher's exit never exceeds
\* the value tick_interval holds at disposal (drop ends the handle, so
\* tick_interval keeps that value).
C9_LatencyWithinTickInterval ==
    (terminated /\ tick_interval > 0) => sinceDrop <= tick_interval

\* C9 as amended: the time from disposal to the watcher's exit never exceeds
\* the interval the watcher read for the sleep that is in progress at
\* disposal or that the tick in progress at disposal goes on to start.
C9_LatencyWithinSleepInProgress ==
    terminated => sinceDrop <= interval_ms

\* The watcher exited a full long sleep after disposal, although set_interval
\* had shortened tick_interval during that sleep.
C9_Witness ==
    /\ terminated
    /\ pc = "done"
    /\ sinceDrop = interval_ms
    /\ tick_interval < interval_ms

\* C10 as stated: tick_interval is positive in every reachable state.
C10_TickIntervalPositive == tick_interval > 0
\* ---------------------------------------------------------------------- C11
ProgramState == <<shared, callbacks, watcher, handle>>

\* C11: a notify() that finds the level already LIVE changes nothing of the
\* program's state (the three atomics, the callbacks, the watcher's position
\* and locals, the handle), so the watcher continues from the very state a
\* single call leaves; and after any run of heartbeats that the watcher has
\* not yet looked at, the level is LIVE, however many calls the run holds.
C11_RepeatedNotifyIsNoOp ==
    /\ [][(Notify /\ state = LIVE) => UNCHANGED ProgramState]_vars
    /\ [](repeated /\ beatSinceAccess => state = LIVE)

C11_Witness ==
    /\ repeated
    /\ beatSinceAccess
    /\ state = LIVE
    /\ pc = "risk_cas"
    /\ AllCallbacks

\* ---------------------------------------------------------------------- C12
InCas == pc \in {"test_cas", "risk_cas"}

\* C12: in the TEST and RISK arms a heartbeat that took effect after the
\* watcher's read leaves the level LIVE, and the compare_and_swap of the arm
\* then changes nothing; the level becomes RISK or DEAD only by a step of
\* the watcher from the rung just below, with no heartbeat since its read.
C12_CasNeverOverwritesHeartbeat ==
    /\ [](InCas /\ beatSinceAccess => state = LIVE)
    /\ [][(InCas /\ pc' # pc /\ state = LIVE) => state' = LIVE]_vars
    /\ [][(state' \in {RISK, DEAD} /\ state' # state) =>
              /\ InCas /\ pc' # pc
              /\ state' = state + 1
              /\ ~beatSinceAccess]_vars

\* The compare_and_swap of the TEST arm has acted (no heartbeat since) and
\* the level is the LIVE that a heartbeat wrote before it.
C12_Witness ==
    /\ pc = "test_cb"
    /\ ~beatSinceAccess
    /\ state = LIVE
    /\ AllCallbacks

\* ---------------------------------------------------------------------- C13
\* C13: a tick that reads TEST goes through the compare_and_swap to the call
\* of missed_test_cb, one that reads RISK to the call of at_risk_cb; the
\* callback, if present, is invoked whatever the compare_and_swap did, and
\* only there is a callback of these arms invoked.
C13_CallbackWhateverTheCas ==
    /\ [][(pc = "match" /\ pc' # pc /\ state = TEST) => pc' = "test_cas"]_vars
    /\ [][(pc = "match" /\ pc' # pc /\ state = RISK) => pc' = "risk_cas"]_vars
    /\ [][(pc = "test_cas" /\ pc' # pc) => pc' = "test_cb"]_vars
    /\ [][(pc = "risk_cas" /\ pc' # pc) => pc' = "risk_cb"]_vars
    /\ [][(pc = "test_cb" /\ pc' # pc) =>
              /\ cbTick = "none"
              /\ cbTick' = Invoked(missed_test_cb, "missed")
              /\ active' = IF missed_test_cb THEN active + 1 ELSE active]_vars
    /\ [][(pc = "risk_cb" /\ pc' # pc) =>
              /\ cbTick = "none"
              /\ cbTick' = Invoked(at_risk_cb, "at_risk")
              /\ active' = IF at_risk_cb THEN active + 1 ELSE active]_vars
    /\ [][active' > active => pc \in {"test_cb", "risk_cb", "dead_cb"}]_vars

\* at_risk_cb is running in a tick whose compare_and_swap found the LIVE of
\* a heartbeat (none has taken effect since).
C13_Witness ==
    /\ pc = "in_cb"
    /\ cbTick = "at_risk"
    /\ ~beatSinceAccess
    /\ state = LIVE

\* ---------------------------------------------------------------------- C14
\* C14: the level is always one of INIT, LIVE, TEST, RISK, DEAD; it changes
\* only by the watcher advancing one rung (LIVE to TEST, TEST to RISK, RISK
\* to DEAD) or by a heartbeat resetting it to LIVE; the match leaves the
\* level as it read it (the arm of an unexpected value never stores INIT),
\* and the level is never INIT again once a heartbeat has taken effect.
C14_LadderValuesAndMoves ==
    /\ [](state \in {INIT, LIVE, TEST, RISK, DEAD})
    /\ [](lastOp # "none" => state # INIT)
    /\ [][state # INIT => state' # INIT]_vars
    /\ [][(pc = "match" /\ pc' # pc) => state' = state]_vars
    /\ [][state' # state =>
              \/ /\ HeartbeatStep
                 /\ state' = LIVE
              \/ /\ WatcherStep
                 /\ pc \in {"live", "test_cas", "risk_cas"}
                 /\ state \in {LIVE, TEST, RISK}
                 /\ state' = state + 1]_vars

\* The level went up every rung to DEAD, stall_detected_cb is being
\* reported, and a heartbeat has reset the level to LIVE.
C14_Witness ==
    /\ state = LIVE
    /\ read = DEAD
    /\ prevRead = RISK
    /\ cbTick = "stalled"
    /\ beatSinceAccess

\* ---------------------------------------------------------------------- C15
\* C15: no step of the watcher, and no passing of time, changes
\* tick_interval or terminated; tick_interval changes only by the store of
\* set_interval, to its argument; terminated changes only by the drop of the
\* handle, from FALSE to TRUE, and is never FALSE again.
C15_WatcherWritesOnlyState ==
    /\ [][(WatcherStep \/ TimePass) => UNCHANGED <<tick_interval, terminated>>]_vars
    /\ [][tick_interval' # tick_interval =>
              /\ hpc = "idle" /\ hpc' = "set_interval"
              /\ tick_interval' = ms']_vars
    /\ [][terminated' # terminated =>
              /\ hpc = "idle" /\ hpc' = "dropped"
              /\ ~terminated /\ terminated']_vars
    /\ [][terminated => terminated']_vars
    /\ [](hpc = "dropped" <=> terminated)

\* The watcher went through ticks, set_interval changed the interval during
\* its last sleep, the handle was dropped and the watcher has exited.
C15_Witness ==
    /\ terminated
    /\ pc = "done"
    /\ cbTick = "stalled"
    /\ lastOp = "set_interval"
    /\ tick_interval = ms
    /\ tick_interval # interval_ms

\* ---------------------------------------------------------------------- C16
\* C16: the watcher loads tick_interval after the arm of the tick and its
\* callback are over, and sleeps for the value it loads: the argument of a
\* set_interval that has completed (and is the latest heartbeat) is the
\* length of the sleep that starts next. A sleep in progress keeps the
\* length it started with: steps of the handle leave interval_ms and the
\* time remaining alone, only the passing of time shortens the time
\* remaining, by one unit each, and the sleep ends when none remains.
C16_IntervalReadAfresh ==
    /\ [][(pc' = "interval" /\ pc # "interval") =>
              /\ pc \in {"match", "live", "test_cb", "risk_cb", "dead_cb", "in_cb"}
              /\ active' = 0]_vars
    /\ [][(pc = "interval" /\ pc' # pc) =>
              /\ pc' = "sleep"
              /\ interval_ms' = tick_interval
              /\ remaining' = tick_interval]_vars
    /\ [][(pc = "interval" /\ pc' # pc /\ lastOp = "set_interval" /\ hpc = "idle") =>
              remaining' = ms]_vars
    /\ [](pc = "sleep" => remaining <= interval_ms)
    /\ [][(pc = "sleep" /\ pc' = "sleep") =>
              /\ interval_ms' = interval_ms
              /\ \/ remaining' = remaining
                 \/ TimePass /\ remaining' = remaining - 1]_vars
    /\ [][(pc = "sleep" /\ HandleStep) =>
              UNCHANGED <<pc, interval_ms, remaining>>]_vars
    /\ [][(pc = "sleep" /\ pc' # "sleep") => (remaining = 0 /\ pc' = "check")]_vars

\* A set_interval has just completed in the middle of a sleep that started
\* with another interval, and the sleep goes on.
C16_Witness ==
    /\ pc = "sleep"
    /\ lastOp = "set_interval"
    /\ hpc = "idle"
    /\ gapTime = 0
    /\ tick_interval < interval_ms
    /\ remaining > 0
    /\ remaining < interval_ms

\* ---------------------------------------------------------------------- C17
\* C17: at most one callback invocation is in progress at any time, and one
\* is in progress only while the watcher is inside the call: none when the
\* watcher loads the interval, sleeps or starts a tick. A tick invokes at
\* most one callback: the callback of a tick is not replaced by another
\* before the match of the next tick.
C17_CallbacksNeverOverlap ==
    /\ [](active <= 1)
    /\ [](active = 1 <=> pc = "in_cb")
    /\ [](pc = "in_cb" => cbTick # "none")
    /\ [][active' > active => (active = 0 /\ cbTick = "none" /\ pc' = "in_cb")]_vars
    /\ [][(cbTick # "none" /\ cbTick' # cbTick) => (pc = "match" /\ cbTick' = "none")]_vars

\* A callback is running while the other thread's heartbeat takes effect.
C17_Witness ==
    /\ pc = "in_cb"
    /\ active = 1
    /\ cbTick = "missed"
    /\ repeated
    /\ beatSinceAccess

\* ---------------------------------------------------------------------- C18
\* C18: a tick enters an arm that invokes a callback only when no heartbeat
\* took effect between the watcher's previous access to the level and the
\* read of this tick, and callbacks are invoked only in those arms; a tick
\* enters the DEAD arm only when its read is the third after the tick that
\* stored TEST, with no heartbeat between that store and the read (and the
\* TEST and RISK arms likewise, one and two ticks after the store).
C18_NoFalseAlarm ==
    /\ [][(pc = "match" /\ pc' \in {"test_cas", "risk_cas", "dead_cb"}) =>
              ~beatSinceAccess]_vars
    /\ [][(pc = "match" /\ pc' # pc /\ beatSinceAccess) => pc' = "live"]_vars
    /\ [][cbTick' \notin {"none", cbTick} =>
              pc \in {"test_cb", "risk_cb", "dead_cb"}]_vars
    /\ [][(pc = "match" /\ pc' = "dead_cb") => (sinceStore >= 3 /\ sinceStore' >= 4)]_vars
    /\ [][(pc = "match" /\ pc' = "risk_cas") => (sinceStore = 2 /\ sinceStore' = 3)]_vars
    /\ [][(pc = "match" /\ pc' = "test_cas") => (sinceStore = 1 /\ sinceStore' = 2)]_vars
    /\ [](pc = "dead_cb" /\ ~beatSinceAccess => sinceStore >= 4)

\* stall_detected_cb is running three ticks after a store of TEST that
\* followed a heartbeat of its own tick (quiet was reset, the store stands).
C18_Witness ==
    /\ pc = "in_cb"
    /\ cbTick = "stalled"
    /\ sinceStore = 4
    /\ quiet = 0
    /\ ~beatSinceAccess

\* ---------------------------------------------------------------------- C19
\* C19 as stated: every tick that invokes at_risk_cb comes right after a
\* tick that invoked missed_test_cb, and every tick that invokes
\* stall_detected_cb right after one that invoked at_risk_cb or
\* stall_detected_cb (looked at for positive intervals only).
C19_PrecededByInvocation ==
    (tick_interval > 0 /\ interval_ms > 0) =>
        /\ cbTick = "at_risk" => prevCb = "missed"
        /\ cbTick = "stalled" => prevCb \in {"at_risk", "stalled"}

\* The watcher has read the level of this tick and is past the match.
PastMatch == pc \notin {"check", "match", "done"}

\* C19: every tick that reads RISK (the only ticks that invoke at_risk_cb)
\* comes right after a tick that read TEST and invoked missed_test_cb if it
\* is present; every tick that reads DEAD (the only ticks that invoke
\* stall_detected_cb) comes right after a tick that read RISK or DEAD and
\* invoked at_risk_cb, or stall_detected_cb, if it is present.
C19_PrecededByLowerRung ==
    /\ cbTick = "at_risk" => read = RISK
    /\ cbTick = "stalled" => read = DEAD
    /\ (PastMatch /\ read = RISK) =>
           (prevRead = TEST /\ prevCb = Invoked(missed_test_cb, "missed"))
    /\ (PastMatch /\ read = DEAD) =>
           \/ prevRead = RISK /\ prevCb = Invoked(at_risk_cb, "at_risk")
           \/ prevRead = DEAD /\ prevCb = Invoked(stall_detected_cb, "stalled")

\* at_risk_cb is invoked right after a tick that read TEST and had no
\* missed_test_cb to invoke.
C19_Witness ==
    /\ cbTick = "at_risk"
    /\ ~missed_test_cb
    /\ read = RISK
    /\ prevRead = TEST
    /\ prevCb = "none"

\* ---------------------------------------------------------------------- C20
\* C20: at most one callback invocation begins after the disposal of the
\* handle, and one begins only in a tick that was past its check of
\* terminated when the handle was dropped; a check that reads terminated =
\* TRUE ends the loop, the check itself neither changes the level nor
\* invokes a callback, and once the loop has ended nothing more happens: no
\* read or change of the level, no callback, no sleep.
C20_AtMostOneCallbackAfterDrop ==
    /\ [](cbAfterDrop <= 1)
    /\ [](cbAfterDrop = 1 => (terminated /\ passedAtDrop))
    /\ [][(active' > active /\ terminated) =>
              (cbAfterDrop = 0 /\ cbAfterDrop' = 1 /\ passedAtDrop)]_vars
    /\ [][(pc = "check" /\ pc' # pc) =>
              /\ pc' = IF terminated THEN "done" ELSE "match"
              /\ UNCHANGED <<shared, callbacks, interval_ms, remaining, active, cbTick, read>>]_vars
    /\ [](pc = "done" => (terminated /\ active = 0 /\ remaining = 0))
    /\ [][pc = "done" => UNCHANGED vars]_vars

\* The handle was dropped in the middle of a tick, the tick went on to
\* invoke stall_detected_cb, and the watcher has exited at its next check.
C20_Witness ==
    /\ pc = "done"
    /\ cbAfterDrop = 1
    /\ passedAtDrop
    /\ cbTick = "stalled"
    /\ sinceDrop >= 1

====
